---------------------------- MODULE Spec2Model ----------------------------
(***************************************************************************)
(* Model of the law-label generator (src/generate_label2.py).              *)
(*                                                                         *)
(* Strings are sequences of Unicode code points (Python's ord), so that    *)
(* "ord(char) > 127", str.replace, str.split and str.strip are computed    *)
(* the way Python computes them.  Offsets of the layout are kept in        *)
(* hundredths (15.99 is 1599): the float sums k * 15.99 of the code stay   *)
(* within 1e-12 of the exact value for every k the model reaches, so       *)
(* "{:.2f}" prints exactly the hundredths kept here.                       *)
(***************************************************************************)
EXTENDS Integers, Sequences, FiniteSets, TLC

VARIABLES
    df,             \* the DataFrame: [columns |-> number of columns, rows |-> <<row, ...>>]
    template,       \* template_content
    HAS_CAIROSVG,   \* module flag set at import time
    index,          \* number of rows df.iterrows() has yielded; the next label
    pdf_files,      \* list of <<pdf_filename, pdf_bytes>>
    warnings,       \* list of warning strings
    svg2pdf_calls,  \* what cairosvg.svg2pdf answered, call by call: [label, out]
    pc,             \* "loop" | "done" for the pipeline; "call" | "returned" for one call
    call,           \* the arguments of a single call of one of the pure functions
    result          \* what that call returned

vars == <<df, template, HAS_CAIROSVG, index, pdf_files, warnings, svg2pdf_calls, pc, call, result>>

-----------------------------------------------------------------------------
(* Bounds of the model *)

MaxValidateLen == 3     \* longest string handed to the validator on its own
MaxRepeat == 17         \* most repetitions of a line unit in a composition text
MaxLayoutLen == 3       \* longest free-form text handed to the layout on its own
MaxRows == 2            \* most rows of a dataset
MaxPieces == 2          \* most pieces of a template in the substitution check
MaxSanitizeLen == 3     \* longest free-form tail of an identifier handed to sanitize_filename

-----------------------------------------------------------------------------
(* Python string primitives on sequences of code points *)

\* sub in s, for a non-empty sub
Contains(s, sub) ==
    \E k \in 0..(Len(s) - Len(sub)) : \A j \in 1..Len(sub) : s[k + j] = sub[j]

\* the 0-based place of the first occurrence of sub in s
str_find(s, sub) ==
    CHOOSE k \in 0..(Len(s) - Len(sub)) :
        /\ \A j \in 1..Len(sub) : s[k + j] = sub[j]
        /\ \A m \in 0..(k - 1) : \E j \in 1..Len(sub) : s[m + j] # sub[j]

RECURSIVE str_replace(_, _, _)
\* s.replace(old, new): every non-overlapping occurrence, left to right
str_replace(s, old, new) ==
    IF ~Contains(s, old) THEN s
    ELSE LET k == str_find(s, old)
         IN  SubSeq(s, 1, k) \o new
                 \o str_replace(SubSeq(s, k + Len(old) + 1, Len(s)), old, new)

RECURSIVE str_split(_, _)
\* s.split(sep) for a one-character sep: always at least one (maybe empty) part
str_split(s, sep) ==
    IF \A k \in 1..Len(s) : s[k] # sep THEN <<s>>
    ELSE LET p == CHOOSE k \in 1..Len(s) :
                      s[k] = sep /\ \A j \in 1..(k - 1) : s[j] # sep
         IN  <<SubSeq(s, 1, p - 1)>> \o str_split(SubSeq(s, p + 1, Len(s)), sep)

\* str.isspace for one character
IsSpace(c) ==
    c \in ({9, 10, 11, 12, 13, 28, 29, 30, 31, 32, 133, 160, 5760}
            \cup (8192..8202) \cup {8232, 8233, 8239, 8287, 12288})

\* s.strip()
str_strip(s) ==
    IF \A k \in 1..Len(s) : IsSpace(s[k]) THEN <<>>
    ELSE LET a == CHOOSE k \in 1..Len(s) :
                      ~IsSpace(s[k]) /\ \A j \in 1..(k - 1) : IsSpace(s[j])
             b == CHOOSE k \in 1..Len(s) :
                      ~IsSpace(s[k]) /\ \A j \in (k + 1)..Len(s) : IsSpace(s[j])
         IN  SubSeq(s, a, b)

\* s.upper() on the letters a-z (the origin codes of the model are ASCII)
str_upper(s) ==
    [k \in 1..Len(s) |-> IF s[k] \in 97..122 THEN s[k] - 32 ELSE s[k]]

RECURSIVE str_join(_)
\* ''.join(parts)
str_join(parts) ==
    IF parts = <<>> THEN <<>> ELSE Head(parts) \o str_join(Tail(parts))

RECURSIVE int_str(_)
\* str(n) for n >= 0
int_str(n) ==
    IF n < 10 THEN <<48 + n>> ELSE int_str(n \div 10) \o <<48 + (n % 10)>>

\* s * n for a string s
RECURSIVE str_times(_, _)
str_times(s, n) == IF n = 0 THEN <<>> ELSE s \o str_times(s, n - 1)

\* all strings over alphabet of length at most n
StringsUpTo(alphabet, n) == UNION {[1..m -> alphabet] : m \in 0..n}

-----------------------------------------------------------------------------
(* contains_non_english_chars, src/generate_label2.py:111-144 *)

\* The list literal as Python parses it.  Lines 125-126 of the source hold
\* ASCII quote characters: '"', '"' are two one-character strings with the
\* quotation mark U+0022, and ''', ''' is ONE triple-quoted string holding
\* a comma and a space.
non_english_chars ==
    << <<65288>>, <<65289>>,    \* U+FF08 U+FF09 full-width parentheses
       <<12304>>, <<12305>>,    \* U+3010 U+3011 lenticular brackets
       <<12300>>, <<12301>>,    \* U+300C U+300D corner brackets
       <<12302>>, <<12303>>,    \* U+300E U+300F white corner brackets
       <<12298>>, <<12299>>,    \* U+300A U+300B double angle brackets
       <<65292>>, <<12290>>,    \* U+FF0C full-width comma, U+3002 ideographic full stop
       <<65306>>, <<65307>>,    \* U+FF1A U+FF1B full-width colon and semicolon
       <<34>>, <<34>>,          \* '"', '"'
       <<44, 32>>,              \* ''', '''  =  ', '
       <<12289>>,               \* U+3001 ideographic comma
       <<65285>> >>             \* U+FF05 full-width percent

\* the list of line 141
acceptable_unicode == {176, 177, 215, 247, 174, 8482, 169}

contains_non_english_chars(text) ==
    \/ \E k \in 1..Len(non_english_chars) : Contains(text, non_english_chars[k])
    \/ \E i \in 1..Len(text) : text[i] > 127 /\ text[i] \notin acceptable_unicode

-----------------------------------------------------------------------------
(* create_centered_tspan_elements, src/generate_label2.py:24-55 *)

LINE_HEIGHT == 1599     \* line_height=15.99, in hundredths

\* text.replace('\\n', '\n').split('\n')
logical_lines(text) == str_split(str_replace(text, <<92, 110>>, <<10>>), 10)

\* f"{current_y}": reached only at i == 0, where current_y is the int 0 and
\* prints as "0"; a whole number prints without a fraction
format_plain(y) ==
    IF y % 100 = 0 THEN int_str(y \div 100)
    ELSE int_str(y \div 100) \o <<46>> \o <<48 + ((y % 100) \div 10), 48 + (y % 10)>>

\* f"{current_y:.2f}"
format_2f(y) ==
    int_str(y \div 100) \o <<46>> \o <<48 + ((y % 100) \div 10), 48 + (y % 10)>>

\* format_y with the two-decimal branch taken for every line
format_y_always_2f(i, current_y) == format_2f(current_y)

\* the y attribute of the fragment of line i (lines 47-50)
format_y(i, current_y) ==
    IF i = 0 THEN format_plain(current_y) ELSE format_2f(current_y)

TSPAN_OPEN == <<60,116,115,112,97,110,32,120,61,34,48,34,32,121,61,34>>  \* '<tspan x="0" y="'
TSPAN_MID == <<34,62>>                                                   \* '">'
TSPAN_CLOSE == <<60,47,116,115,112,97,110,62>>                           \* '</tspan>'

\* the f-strings of lines 48 and 50
tspan(i, current_y, line_content) ==
    TSPAN_OPEN \o format_y(i, current_y) \o TSPAN_MID \o line_content \o TSPAN_CLOSE

\* skip_blank with the cursor left where it was
skip_blank_no_advance(current_y, line_height) == current_y

\* current_y after a blank line (line 44)
skip_blank(current_y, line_height) == current_y + line_height

RECURSIVE layout_loop(_, _, _, _, _)
\* the for loop of lines 40-53, from line i (0-based) on
layout_loop(lines, i, current_y, tspan_elements, line_height) ==
    IF i >= Len(lines) THEN tspan_elements
    ELSE LET line_content == str_strip(lines[i + 1])
         IN  IF line_content = <<>>
             THEN layout_loop(lines, i + 1, skip_blank(current_y, line_height),
                              tspan_elements, line_height)
             ELSE layout_loop(lines, i + 1, current_y + line_height,
                              Append(tspan_elements, tspan(i, current_y, line_content)),
                              line_height)

\* the list tspan_elements when the loop ends
tspan_list(text, line_height) ==
    layout_loop(logical_lines(text), 0, 0, <<>>, line_height)

create_centered_tspan_elements(text, line_height) ==
    str_join(tspan_list(text, line_height))

-----------------------------------------------------------------------------
(* The pipeline's variables while a single function is called *)

Idle ==
    /\ df = [columns |-> 3, rows |-> <<>>]
    /\ template = <<>>
    /\ HAS_CAIROSVG = FALSE
    /\ index = 0
    /\ pdf_files = <<>>
    /\ warnings = <<>>
    /\ svg2pdf_calls = <<>>

IdleUnchanged ==
    UNCHANGED <<df, template, HAS_CAIROSVG, index, pdf_files, warnings, svg2pdf_calls, call>>

-----------------------------------------------------------------------------
(* One call of contains_non_english_chars *)

\* A " , space ° e-acute, full-width comma, left curly quote, ideographic comma
ValidateAlphabet == {65, 34, 44, 32, 176, 233, 65292, 8220, 12289}

InitValidate ==
    /\ Idle
    /\ pc = "call"
    /\ call \in {[text |-> t] : t \in StringsUpTo(ValidateAlphabet, MaxValidateLen)}
    /\ result = [ret |-> FALSE]

CallValidate ==
    /\ pc = "call"
    /\ result' = [ret |-> contains_non_english_chars(call.text)]
    /\ pc' = "returned"
    /\ IdleUnchanged

SpecValidate == InitValidate /\ [][CallValidate]_vars


\* C2 (as claimed): the validator answers "unsafe" exactly for the strings
\* holding a character above 127 outside the allow-list (every character of
\* the full-width/CJK blacklist is such a character), so a string of
\* characters <= 127 only, the empty string included, is classified safe.
C2_UnsafeIffNonAsciiOutsideAllowList ==
    pc = "returned" =>
        (result.ret <=>
            \E i \in 1..Len(call.text) :
                call.text[i] > 127 /\ call.text[i] \notin acceptable_unicode)

-----------------------------------------------------------------------------
(* The line count of the pipeline, src/generate_label2.py:216-218 *)

MAX_MATERIAL_LINES == 15

\* non_empty_lines without the replace of the two-character escape
non_empty_lines_no_unescape(materials_text) ==
    SelectSeq(str_split(materials_text, 10), LAMBDA line : str_strip(line) # <<>>)

\* material_lines = materials_text.replace('\\n', '\n').split('\n')
\* non_empty_lines = [line for line in material_lines if line.strip()]
non_empty_lines(materials_text) ==
    SelectSeq(str_split(str_replace(materials_text, <<92, 110>>, <<10>>), 10),
              LAMBDA line : str_strip(line) # <<>>)

-----------------------------------------------------------------------------
(* One call of create_centered_tspan_elements *)

\* A B space newline backslash n
LayoutAlphabet == {65, 66, 32, 10, 92, 110}

\* "A" newline, "A" backslash n, a blank line, " B " newline
LineUnits == {<<65, 10>>, <<65, 92, 110>>, <<10>>, <<32, 66, 32, 10>>}

\* nothing, a leading blank line, a leading blank line written with the escape
LinePrefixes == {<<>>, <<10>>, <<32, 92, 110>>}

LayoutTexts ==
    StringsUpTo(LayoutAlphabet, MaxLayoutLen)
        \cup {p \o str_times(u, k) : p \in LinePrefixes, u \in LineUnits, k \in 0..MaxRepeat}
        \cup {<<65, 10, 10, 66>>}

InitLayout ==
    /\ Idle
    /\ pc = "call"
    /\ call \in {[text |-> t] : t \in LayoutTexts}
    /\ result = [tspan_elements |-> <<>>, ret |-> <<>>]

CallLayout ==
    /\ pc = "call"
    /\ result' = [tspan_elements |-> tspan_list(call.text, LINE_HEIGHT),
                  ret |-> create_centered_tspan_elements(call.text, LINE_HEIGHT)]
    /\ pc' = "returned"
    /\ IdleUnchanged

SpecLayout == InitLayout /\ [][CallLayout]_vars

\* the value of the y attribute of one fragment
YAttr(t) ==
    LET rest == SubSeq(t, Len(TSPAN_OPEN) + 1, Len(t))
        q == CHOOSE k \in 1..Len(rest) : rest[k] = 34 /\ \A j \in 1..(k - 1) : rest[j] # 34
    IN  SubSeq(rest, 1, q - 1)

IsDigits(s) == s # <<>> /\ \A k \in 1..Len(s) : s[k] \in 48..57

IsIntegerFormatted(y) == IsDigits(y)

IsTwoDecimals(y) ==
    /\ Len(y) >= 4
    /\ y[Len(y) - 2] = 46
    /\ IsDigits(SubSeq(y, 1, Len(y) - 3))
    /\ IsDigits(SubSeq(y, Len(y) - 1, Len(y)))

RECURSIVE DigitsValue(_)
DigitsValue(s) ==
    IF s = <<>> THEN 0 ELSE 10 * DigitsValue(SubSeq(s, 1, Len(s) - 1)) + (s[Len(s)] - 48)

\* a printed offset read back, in hundredths
Hundredths(y) ==
    IF IsTwoDecimals(y)
    THEN 100 * DigitsValue(SubSeq(y, 1, Len(y) - 3)) + DigitsValue(SubSeq(y, Len(y) - 1, Len(y)))
    ELSE 100 * DigitsValue(y)

\* the 0-based positions, among all logical lines, of the non-blank ones
NonBlankPositions(text) ==
    LET lines == logical_lines(text)
    IN  SelectSeq([k \in 1..Len(lines) |-> k - 1],
                  LAMBDA i : str_strip(lines[i + 1]) # <<>>)

FirstLineIsBlank(text) == str_strip(logical_lines(text)[1]) = <<>>

\* C7 (as claimed): the first emitted fragment carries an integer-formatted
\* offset and every later fragment an offset with exactly two decimals, also
\* when the text starts with blank lines.
C7_FirstEmittedIsInteger ==
    pc = "returned" =>
        \A k \in 1..Len(result.tspan_elements) :
            IF k = 1 THEN IsIntegerFormatted(YAttr(result.tspan_elements[k]))
                     ELSE IsTwoDecimals(YAttr(result.tspan_elements[k]))

\* C7 (amended): a fragment carries an integer-formatted offset exactly when
\* it is the fragment of the first logical line (index 0); every other
\* fragment, the first emitted one after leading blank lines included,
\* carries an offset with exactly two decimals.
C7_IntegerOnlyForLineZero ==
    pc = "returned" =>
        \A k \in 1..Len(result.tspan_elements) :
            LET y == YAttr(result.tspan_elements[k])
            IN  IF k = 1 /\ ~FirstLineIsBlank(call.text)
                THEN IsIntegerFormatted(y) /\ y = <<48>>
                ELSE IsTwoDecimals(y) /\ ~IsIntegerFormatted(y)

\* a text with a leading blank line and an emitted fragment, and one without
C7_Witness ==
    /\ pc = "returned"
    /\ call.text = <<10>> \o str_times(<<65, 10>>, 2)
    /\ FirstLineIsBlank(call.text)
    /\ Len(result.tspan_elements) = 2

\* C8: the fragment of the non-blank line at 0-based position k among all
\* logical lines (blank ones counted) has offset k * lineHeight; "A\nB" gives
\* 0 and 15.99, "A\n\nB" gives 0 and 31.98.
C8_OffsetIsPositionTimesLineHeight ==
    pc = "returned" =>
        LET el == result.tspan_elements
            at == NonBlankPositions(call.text)
        IN  /\ Len(el) = Len(at)
            /\ \A j \in 1..Len(el) : Hundredths(YAttr(el[j])) = at[j] * LINE_HEIGHT
            /\ call.text = <<65, 10, 66>> =>
                   <<YAttr(el[1]), YAttr(el[2])>> = << <<48>>, <<49, 53, 46, 57, 57>> >>
            /\ call.text = <<65, 10, 10, 66>> =>
                   <<YAttr(el[1]), YAttr(el[2])>> = << <<48>>, <<51, 49, 46, 57, 56>> >>

\* "A\n\nB" has been laid out: two fragments around a blank line
C8_Witness ==
    /\ pc = "returned"
    /\ call.text = <<65, 10, 10, 66>>
    /\ Len(result.tspan_elements) = 2
    /\ NonBlankPositions(call.text) = <<0, 2>>

\* C9: the non-blank line count the pipeline compares with the limit equals
\* the number of fragments the layout emits for the same text (escape and
\* newline both break lines, blank lines ignored by both), so a text within
\* the limit never yields more than 15 fragments.
C9_CountEqualsFragments ==
    pc = "returned" =>
        /\ Len(non_empty_lines(call.text)) = Len(result.tspan_elements)
        /\ Len(non_empty_lines(call.text)) <= MAX_MATERIAL_LINES
               => Len(result.tspan_elements) <= MAX_MATERIAL_LINES

\* sixteen lines separated by the two-character escape, after a blank line
C9_Witness ==
    /\ pc = "returned"
    /\ call.text = <<10>> \o str_times(<<65, 92, 110>>, 16)
    /\ Len(result.tspan_elements) = 16
    /\ Len(non_empty_lines(call.text)) > MAX_MATERIAL_LINES

-----------------------------------------------------------------------------
(* replace_template_variables, src/generate_label2.py:58-100 *)

TOKEN_CODE_NUMBER == <<123,123,99,111,100,101,95,110,117,109,98,101,114,125,125>>             \* '{{code_number}}'
TOKEN_MATERIAL_TEXT == <<123,123,109,97,116,101,114,105,97,108,95,116,101,120,116,125,125>>   \* '{{material_text}}'
TOKEN_FIRM == <<123,123,102,105,114,109,125,125>>                                             \* '{{firm}}'
TOKEN_ORIGIN_COUNTRY == <<123,123,111,114,105,103,105,110,95,99,111,117,110,116,114,121,125,125>>  \* '{{origin_country}}'

REG_PREFIX == <<82,69,71,46,78,79,46>>      \* 'REG.NO.'
PER_PREFIX == <<80,69,82,46,78,79,46>>      \* 'PER.NO.'
TSPAN_DY_UP == <<60,116,115,112,97,110,32,120,61,34,48,34,32,100,121,61,34,45,56,34,62>>    \* '<tspan x="0" dy="-8">'
TSPAN_DY_DOWN == <<60,116,115,112,97,110,32,120,61,34,48,34,32,100,121,61,34,49,54,34,62>>  \* '<tspan x="0" dy="16">'

\* lines 71-84
code_number_content(reg_number, per_number) ==
    LET formatted_reg_no == REG_PREFIX \o reg_number
        per_number_clean == IF per_number # <<>> THEN str_strip(per_number) ELSE <<>>
    IN  IF per_number_clean # <<>>
        THEN TSPAN_DY_UP \o formatted_reg_no \o TSPAN_CLOSE
                 \o TSPAN_DY_DOWN \o (PER_PREFIX \o per_number_clean) \o TSPAN_CLOSE
        ELSE formatted_reg_no

\* lines 95-97
origin_country(origin) ==
    LET origin_clean == IF origin # <<>> THEN str_upper(str_strip(origin)) ELSE <<>>
    IN  IF origin_clean = <<67, 78>> THEN <<67,72,73,78,65>>            \* CN -> CHINA
        ELSE IF origin_clean = <<86, 78>> THEN <<86,73,69,84,78,65,77>> \* VN -> VIETNAM
        ELSE origin_clean

\* the four (token, content) pairs, in the order of lines 86, 89, 92, 98
replacements(material_text, reg_number, per_number, firm, origin) ==
    << <<TOKEN_CODE_NUMBER, code_number_content(reg_number, per_number)>>,
       <<TOKEN_MATERIAL_TEXT, create_centered_tspan_elements(material_text, LINE_HEIGHT)>>,
       <<TOKEN_FIRM, IF firm # <<>> THEN str_strip(firm) ELSE <<>> >>,
       <<TOKEN_ORIGIN_COUNTRY, origin_country(origin)>> >>

\* replace_token with only the first occurrence replaced
replace_first_only(svg_content, token, content) ==
    IF Contains(svg_content, token)
    THEN LET k == str_find(svg_content, token)
         IN  SubSeq(svg_content, 1, k) \o content
                 \o SubSeq(svg_content, k + Len(token) + 1, Len(svg_content))
    ELSE svg_content

\* one svg_content = svg_content.replace(token, content)
replace_token(svg_content, token, content) == str_replace(svg_content, token, content)

RECURSIVE replace_in_order(_, _, _)
\* the replace statements for the pairs reps, taken in the given order
replace_in_order(svg_content, reps, order) ==
    IF order = <<>> THEN svg_content
    ELSE replace_in_order(
             replace_token(svg_content, reps[Head(order)][1], reps[Head(order)][2]),
             reps, Tail(order))

replace_template_variables(svg_content, material_text, reg_number, per_number, firm, origin) ==
    replace_in_order(svg_content,
                     replacements(material_text, reg_number, per_number, firm, origin),
                     <<1, 2, 3, 4>>)

-----------------------------------------------------------------------------
(* sanitize_filename, src/generate_label2.py:103-108 *)

FILENAME_MAX == 50

\* the character class of the re.sub of line 105:  < > : " / \ | ? * \n \r
forbidden_filename_chars == {60, 62, 58, 34, 47, 92, 124, 63, 42, 10, 13}

\* sanitize_filename with the truncation made before the removal
sanitize_truncate_first(text) ==
    LET cut == SubSeq(text, 1, IF Len(text) < FILENAME_MAX THEN Len(text) ELSE FILENAME_MAX)
        removed == SelectSeq(cut, LAMBDA c : c \notin forbidden_filename_chars)
    IN  [k \in 1..Len(removed) |-> IF removed[k] = 32 THEN 95 ELSE removed[k]]

sanitize_filename(text) ==
    LET removed == SelectSeq(text, LAMBDA c : c \notin forbidden_filename_chars)
        safe == [k \in 1..Len(removed) |-> IF removed[k] = 32 THEN 95 ELSE removed[k]]
    IN  SubSeq(safe, 1, IF Len(safe) < FILENAME_MAX THEN Len(safe) ELSE FILENAME_MAX)

-----------------------------------------------------------------------------
(* convert_svg_bytes_to_pdf_bytes, src/generate_label2.py:147-156 *)

\* what cairosvg.svg2pdf can do with one document: return the PDF, raise, or
\* return an empty byte string
SVG2PDF_OUTCOMES == {"bytes", "raise", "empty"}

None == [kind |-> "None", data |-> <<>>]

\* the converter with a failed conversion handing the markup back as bytes
convert_failure_as_bytes(svg_content, has_cairosvg, out) ==
    IF ~has_cairosvg THEN None
    ELSE IF out = "empty" THEN [kind |-> "bytes", data |-> <<>>]
    ELSE [kind |-> "bytes", data |-> svg_content]

\* the PDF is opaque; it is kept as the markup it was rendered from
convert_svg_bytes_to_pdf_bytes(svg_content, has_cairosvg, out) ==
    IF ~has_cairosvg THEN None
    ELSE IF out = "raise" THEN None
    ELSE IF out = "empty" THEN [kind |-> "bytes", data |-> <<>>]
    ELSE [kind |-> "bytes", data |-> svg_content]

\* truthy with an empty byte string taken for a document
truthy_any_bytes(pdf_bytes) == pdf_bytes.kind = "bytes"

\* "if pdf_bytes:" of line 244
truthy(pdf_bytes) == pdf_bytes.kind = "bytes" /\ pdf_bytes.data # <<>>

-----------------------------------------------------------------------------
(* generate_label2_from_dataframe, src/generate_label2.py:159-247 *)

\* a cell is a string or is missing (NaN / None)
NaN == [na |-> TRUE, s |-> <<>>]
Str(s) == [na |-> FALSE, s |-> s]

\* str(row[col]) if pd.notna(row[col]) else ""
cell_text(c) == IF c.na THEN <<>> ELSE c.s

\* the optional column at 1-based position k (lines 181-185 and 198-210)
optional_text(row, columns, k) == IF columns >= k THEN cell_text(row[k]) ELSE <<>>

LABEL_PREFIX == <<108,97,98,101,108,95>>    \* 'label_'

\* line 195
identifier_of(row, label) ==
    IF ~row[1].na THEN row[1].s ELSE LABEL_PREFIX \o int_str(label)

NOT_GENERATED == <<32,108,97,98,101,108,32,105,115,32,110,111,116,32,103,101,110,101,114,97,116,101,100,44,32,114,101,97,115,111,110,58,32>>  \* ' label is not generated, reason: '
REASON_LINES == <<109,97,116,101,114,105,97,108,32,116,101,120,116,32,108,97,114,103,101,114,32,116,104,97,110,32>> \o int_str(MAX_MATERIAL_LINES) \o <<32,108,105,110,101,115,46>>  \* 'material text larger than 15 lines.'
REASON_MATERIAL == <<109,97,116,101,114,105,97,108,32,116,101,120,116,32,105,115,32,110,111,116,32,69,110,103,108,105,115,104,32,105,110,112,117,116,46>>  \* 'material text is not English input.'
REASON_REG == <<82,69,71,32,35,32,105,115,32,110,111,116,32,69,110,103,108,105,115,104,32,105,110,112,117,116,46>>  \* 'REG # is not English input.'
REASON_PER == <<80,69,82,32,35,32,105,115,32,110,111,116,32,69,110,103,108,105,115,104,32,105,110,112,117,116,46>>  \* 'PER # is not English input.'
LABEL2_SUFFIX == <<45,108,97,98,101,108,50,46,112,100,102>>   \* '-label2.pdf'

\* missing_required with "and" for "or"
missing_required_both(materials_text, reg_no) == materials_text = <<>> /\ reg_no = <<>>

\* "if not materials_text or not reg_no" of line 212
\* the required-field test made on the stripped texts
missing_required_stripped(materials_text, reg_no) ==
    str_strip(materials_text) = <<>> \/ str_strip(reg_no) = <<>>

missing_required(materials_text, reg_no) == materials_text = <<>> \/ reg_no = <<>>

\* rejection with the non-English check of the composition text made first
rejection_english_first(materials_text, reg_no, per_no) ==
    IF contains_non_english_chars(materials_text) THEN <<REASON_MATERIAL>>
    ELSE IF Len(non_empty_lines(materials_text)) > MAX_MATERIAL_LINES THEN <<REASON_LINES>>
    ELSE IF contains_non_english_chars(reg_no) THEN <<REASON_REG>>
    ELSE IF per_no # <<>> /\ contains_non_english_chars(per_no) THEN <<REASON_PER>>
    ELSE <<>>

\* the chain of checks of lines 215-234: the reason of the first one that
\* fails, or nothing
rejection(materials_text, reg_no, per_no) ==
    IF Len(non_empty_lines(materials_text)) > MAX_MATERIAL_LINES THEN <<REASON_LINES>>
    ELSE IF contains_non_english_chars(materials_text) THEN <<REASON_MATERIAL>>
    ELSE IF contains_non_english_chars(reg_no) THEN <<REASON_REG>>
    ELSE IF per_no # <<>> /\ contains_non_english_chars(per_no) THEN <<REASON_PER>>
    ELSE <<>>

\* the f-strings of lines 220, 225, 229, 233
warning_text(identifier, reason) == identifier \o NOT_GENERATED \o reason

\* add_warning with the new warning put first
add_warning_first(warning_list, w) == <<w>> \o warning_list

\* warnings.append(...)
add_warning(warning_list, w) == Append(warning_list, w)

\* add_pdf with the new document put first
add_pdf_first(pdf_list, doc) == <<doc>> \o pdf_list

\* the list with an entry of the same filename replaced instead of appended to
add_pdf_overwrite(pdf_list, doc) ==
    IF \E k \in 1..Len(pdf_list) : pdf_list[k][1] = doc[1]
    THEN [k \in 1..Len(pdf_list) |-> IF pdf_list[k][1] = doc[1] THEN doc ELSE pdf_list[k]]
    ELSE Append(pdf_list, doc)

\* pdf_files.append((pdf_filename, pdf_bytes))
add_pdf(pdf_list, doc) == Append(pdf_list, doc)

\* one iteration of the loop of lines 192-245 for the row with the given
\* label: the lists after it, and whether cairosvg.svg2pdf was called
iteration(row, columns, label, pdf_list, warning_list, out) ==
    LET materials_text == cell_text(row[2])
        reg_no == cell_text(row[3])
        identifier == identifier_of(row, label)
        per_no == optional_text(row, columns, 4)
        firm == optional_text(row, columns, 5)
        origin == optional_text(row, columns, 6)
        same == [pdf_files |-> pdf_list, warnings |-> warning_list, called |-> FALSE]
    IN  IF missing_required(materials_text, reg_no) THEN same
        ELSE IF rejection(materials_text, reg_no, per_no) # <<>>
        THEN [same EXCEPT !.warnings =
                  add_warning(warning_list,
                      warning_text(identifier, rejection(materials_text, reg_no, per_no)[1]))]
        ELSE LET svg_content == replace_template_variables(template, materials_text, reg_no,
                                                           per_no, firm, origin)
                 pdf_filename == sanitize_filename(identifier) \o LABEL2_SUFFIX
                 pdf_bytes == convert_svg_bytes_to_pdf_bytes(svg_content, HAS_CAIROSVG, out)
             IN  IF ~HAS_CAIROSVG THEN same
                 ELSE IF truthy(pdf_bytes)
                      THEN [same EXCEPT !.pdf_files = add_pdf(pdf_list, <<pdf_filename, pdf_bytes>>),
                                        !.called = TRUE]
                      ELSE [same EXCEPT !.called = TRUE]

-----------------------------------------------------------------------------
(* The datasets and the template of the pipeline runs *)

\* '{{code_number}}|{{material_text}}|{{firm}}|{{origin_country}}'
LabelTemplate ==
    TOKEN_CODE_NUMBER \o <<124>> \o TOKEN_MATERIAL_TEXT \o <<124>> \o TOKEN_FIRM
        \o <<124>> \o TOKEN_ORIGIN_COUNTRY

TextA == <<65>>                                                     \* 'A'
TextCommaSpace == <<65, 44, 32, 66>>                                \* 'A, B'
TextThreeLines == <<65, 92, 110, 66, 10, 67>>                       \* 'A\\nB' newline 'C'
TextAtLimit == str_times(<<65, 10>>, MAX_MATERIAL_LINES)            \* 15 lines
TextOverLimit == str_times(<<65, 92, 110>>, MAX_MATERIAL_LINES + 1) \* 16 lines
TextOverLimitWide == <<65292>> \o TextOverLimit                     \* 16 lines, full-width comma
TextWide == <<65, 65292, 66>>                                       \* 'A' U+FF0C 'B'
TextBlank == <<32, 10, 32>>                                         \* blank lines only
Reg12 == <<49, 50>>                                                 \* '12'
RegWide == <<65297, 65298>>                                         \* full-width digits
Per67 == <<54, 55>>                                                 \* '67'
PerWide == <<65302>>                                                \* a full-width digit
LongId == str_times(<<120>>, FILENAME_MAX - 1) \o <<58, 121, 122>>  \* 49 'x' then ':yz'

\* rows of six cells: identifier, composition text, registration number,
\* permit number, firm, origin
RowSet ==
    { <<Str(<<76, 49>>), Str(TextA), Str(Reg12), Str(Per67), Str(<<32,65,99,109,101,32>>), Str(<<99,110>>)>>,
      <<Str(<<97,32,98,58,99>>), Str(TextThreeLines), Str(Reg12), NaN, NaN, Str(<<32,118,110,32>>)>>,
      <<Str(<<97,95,98,99>>), Str(TextA), Str(Reg12), Str(<<32>>), Str(<<65,99,109,101>>), Str(<<85,83>>)>>,
      <<NaN, Str(TextA), Str(Reg12), Str(<<>>), Str(<<>>), Str(<<>>)>>,
      <<Str(LongId), Str(TextAtLimit), Str(Reg12), Str(Per67), NaN, NaN>>,
      <<Str(<<76, 49>>), Str(TextCommaSpace), Str(Reg12), Str(Per67), NaN, NaN>>,
      <<Str(<<76, 50>>), Str(TextOverLimitWide), Str(RegWide), Str(PerWide), NaN, NaN>>,
      <<Str(<<76, 51>>), Str(TextWide), Str(RegWide), Str(PerWide), NaN, NaN>>,
      <<Str(<<76, 52>>), Str(TextA), Str(RegWide), Str(PerWide), NaN, NaN>>,
      <<Str(<<76, 53>>), Str(TextA), Str(Reg12), Str(PerWide), NaN, NaN>>,
      <<Str(<<76, 54>>), NaN, Str(RegWide), Str(PerWide), NaN, NaN>>,
      <<Str(<<76, 55>>), Str(TextOverLimitWide), Str(<<>>), Str(PerWide), NaN, NaN>>,
      <<NaN, Str(TextOverLimit), Str(Reg12), NaN, NaN, NaN>>,
      <<Str(<<76, 56>>), Str(TextBlank), Str(Reg12), Str(PerWide), NaN, NaN>> }

\* the datasets of c columns: every row keeps its first c cells
Datasets ==
    {[columns |-> c, rows |-> [k \in 1..Len(rs) |-> SubSeq(rs[k], 1, c)]] :
        c \in 3..6, rs \in UNION {[1..n -> RowSet] : n \in 0..MaxRows}}

Init ==
    /\ df \in Datasets
    /\ template = LabelTemplate
    /\ HAS_CAIROSVG \in BOOLEAN
    /\ index = 0
    /\ pdf_files = <<>>
    /\ warnings = <<>>
    /\ svg2pdf_calls = <<>>
    /\ pc = "loop"
    /\ call = [fn |-> "generate_label2_from_dataframe"]
    /\ result = [pdf_files |-> <<>>, warnings |-> <<>>]

\* the row the next iteration processes
CurrentRow == df.rows[index + 1]

\* one iteration of "for index, row in df.iterrows()": the converter's answer
\* is drawn only when the row reaches the converter
ProcessRow ==
    /\ pc = "loop"
    /\ index < Len(df.rows)
    /\ \E r0 \in {iteration(CurrentRow, df.columns, index, pdf_files, warnings, "bytes")} :
       \E out \in (IF r0.called THEN SVG2PDF_OUTCOMES ELSE {"bytes"}) :
       \E r \in {IF out = "bytes" THEN r0
                  ELSE iteration(CurrentRow, df.columns, index, pdf_files, warnings, out)} :
           /\ pdf_files' = r.pdf_files
           /\ warnings' = r.warnings
           /\ svg2pdf_calls' =
                  IF r.called THEN Append(svg2pdf_calls, [label |-> index, out |-> out])
                              ELSE svg2pdf_calls
    /\ index' = index + 1
    /\ UNCHANGED <<df, template, HAS_CAIROSVG, pc, call, result>>

\* "return pdf_files, warnings" once the rows are exhausted
Return ==
    /\ pc = "loop"
    /\ index = Len(df.rows)
    /\ pc' = "done"
    /\ result' = [pdf_files |-> pdf_files, warnings |-> warnings]
    /\ UNCHANGED <<df, template, HAS_CAIROSVG, index, pdf_files, warnings, svg2pdf_calls, call>>

Next == ProcessRow \/ Return

Spec == Init /\ [][Next]_vars

-----------------------------------------------------------------------------
(* What the claims about the pipeline speak of *)

\* one iteration of the loop has run
RowProcessed == index' = index + 1

Materials(row) == cell_text(row[2])
Registration(row) == cell_text(row[3])
Permit(row) == optional_text(row, df.columns, 4)

HasRequired(row) == Materials(row) # <<>> /\ Registration(row) # <<>>

\* the converter was called in this step and gave no usable bytes
NoBytesThisStep ==
    /\ svg2pdf_calls' # svg2pdf_calls
    /\ svg2pdf_calls'[Len(svg2pdf_calls')].out # "bytes"

IsPrintableAscii(s) == \A k \in 1..Len(s) : s[k] \in 32..126

\* the four checks of a row, in the order the claims give them
CheckFails(row, k) ==
    CASE k = 1 -> Len(non_empty_lines(Materials(row))) > 15
      [] k = 2 -> contains_non_english_chars(Materials(row))
      [] k = 3 -> contains_non_english_chars(Registration(row))
      [] k = 4 -> Permit(row) # <<>> /\ contains_non_english_chars(Permit(row))

PassesChecks(row) == \A k \in 1..4 : ~CheckFails(row, k)

\* the reasons as the specification words them
ReasonText ==
    << <<109,97,116,101,114,105,97,108,32,116,101,120,116,32,108,97,114,103,101,114,32,116,104,97,110,32,49,53,32,108,105,110,101,115>>,
       <<109,97,116,101,114,105,97,108,32,116,101,120,116,32,105,115,32,110,111,116,32,69,110,103,108,105,115,104,32,105,110,112,117,116>>,
       <<82,69,71,32,35,32,105,115,32,110,111,116,32,69,110,103,108,105,115,104,32,105,110,112,117,116>>,
       <<80,69,82,32,35,32,105,115,32,110,111,116,32,69,110,103,108,105,115,104,32,105,110,112,117,116>> >>

\* C1 (as claimed): a row of printable-ASCII cells with both required fields
\* and at most 15 non-blank lines, the converter returning bytes, adds exactly
\* one document named sanitize_filename(identifier) + '-label2.pdf' (the
\* sanitized identifier at most 50 characters long) and no warning.
C1_AsciiRowEmitsOneDocument ==
    [][ ( /\ RowProcessed
          /\ HAS_CAIROSVG
          /\ ~NoBytesThisStep
          /\ \A k \in 1..df.columns : IsPrintableAscii(cell_text(CurrentRow[k]))
          /\ HasRequired(CurrentRow)
          /\ Len(non_empty_lines(Materials(CurrentRow))) <= 15 )
        => ( /\ warnings' = warnings
             /\ Len(pdf_files') = Len(pdf_files) + 1
             /\ SubSeq(pdf_files', 1, Len(pdf_files)) = pdf_files
             /\ Len(sanitize_filename(identifier_of(CurrentRow, index))) <= 50
             /\ pdf_files'[Len(pdf_files')][1] =
                    sanitize_filename(identifier_of(CurrentRow, index)) \o LABEL2_SUFFIX ) ]_vars

\* the rows among the first n that passed every check
AcceptedRows(n) == {i \in 1..n : HasRequired(df.rows[i]) /\ PassesChecks(df.rows[i])}

\* the rows among the first n that passed every check and got no bytes, given
\* how many passed every check
NoBytesRows(accepted) ==
    IF HAS_CAIROSVG
    THEN Cardinality({k \in 1..Len(svg2pdf_calls) : svg2pdf_calls[k].out # "bytes"})
    ELSE accepted

RequiredRows(n) == Cardinality({i \in 1..n : HasRequired(df.rows[i])})

\* C3 (as claimed): after a run, documents plus warnings equals the number of
\* rows with both required fields non-empty.
C3_DocsPlusWarningsIsRequiredRows ==
    pc = "done" => Len(pdf_files) + Len(warnings) = RequiredRows(Len(df.rows))

\* C3 (amended): documents plus warnings plus the rows that passed every
\* check but got no bytes from the converter (unavailable, failed, or empty
\* result) equals the number of rows with both required fields non-empty;
\* this holds after every iteration for the rows processed so far.
C3_DocsWarningsAndLostRows ==
    \E accepted \in {Cardinality(AcceptedRows(index))} :
        /\ Len(pdf_files) + Len(warnings) + NoBytesRows(accepted) = RequiredRows(index)
        /\ Len(warnings) = RequiredRows(index) - accepted

\* a finished run with a document, a warning-free lost row and nothing else
C3_Witness ==
    /\ pc = "done"
    /\ Len(df.rows) = 2
    /\ RequiredRows(2) = 2
    /\ Len(pdf_files) = 1
    /\ warnings = <<>>
    /\ NoBytesRows(Cardinality(AcceptedRows(2))) = 1

\* C4: a row whose composition text or registration number is empty adds no
\* document and no warning (and reaches no converter), whatever its other
\* cells hold: the check precedes the line-count and non-English checks.
C4_MissingRequiredIsSilent ==
    [][ (RowProcessed /\ ~HasRequired(CurrentRow))
        => (pdf_files' = pdf_files /\ warnings' = warnings
                /\ svg2pdf_calls' = svg2pdf_calls) ]_vars

\* a row with an empty registration number, more than 15 lines, a full-width
\* comma and a non-English permit number went through without a trace
C4_Witness ==
    /\ index = 1
    /\ df.columns >= 4
    /\ Registration(df.rows[1]) = <<>>
    /\ ~df.rows[1][1].na
    /\ CheckFails(df.rows[1], 1) /\ CheckFails(df.rows[1], 2) /\ CheckFails(df.rows[1], 4)
    /\ pdf_files = <<>> /\ warnings = <<>>

\* the first check (1..4) a row fails; 0 when it passes them all
FirstFailing(row) ==
    IF PassesChecks(row) THEN 0
    ELSE CHOOSE k \in 1..4 : CheckFails(row, k) /\ \A j \in 1..(k - 1) : ~CheckFails(row, j)

\* C5: a row with both required fields is rejected at the first failing check
\* in the order line count, composition text, registration number, permit
\* number: exactly one warning, carrying that check's reason and no other, and
\* no document.
C5_FirstFailingCheckGivesTheReason ==
    [][ (RowProcessed /\ HasRequired(CurrentRow)) =>
          \E first \in {FirstFailing(CurrentRow)} :
              first # 0 =>
                  /\ pdf_files' = pdf_files
                  /\ svg2pdf_calls' = svg2pdf_calls
                  /\ Len(warnings') = Len(warnings) + 1
                  /\ SubSeq(warnings', 1, Len(warnings)) = warnings
                  /\ \A k \in 1..4 :
                         Contains(warnings'[Len(warnings')], ReasonText[k]) <=> k = first
                  /\ warnings'[Len(warnings')] =
                         identifier_of(CurrentRow, index) \o NOT_GENERATED
                             \o ReasonText[first] \o <<46>> ]_vars

\* a row failing the line count, the composition text, the registration
\* number and the permit number at once was reported for its line count
C5_Witness ==
    /\ index = 1
    /\ HasRequired(df.rows[1])
    /\ \A k \in 1..4 : CheckFails(df.rows[1], k)
    /\ Len(warnings) = 1
    /\ Contains(warnings[1], ReasonText[1])
    /\ pdf_files = <<>>

\* C6: every row is visited in input order and no rejection or conversion
\* failure stops the run: each iteration leaves the lists as they were or
\* appends at their end, what it appends is what the row yields on its own
\* (in an otherwise empty run); every step moves on to the next row, which
\* exists or else the return is due, or returns, and the run returns only
\* with all rows processed.
C6_AllRowsInOrder ==
    [][ /\ RowProcessed =>
             \E a0 \in {iteration(CurrentRow, df.columns, index, <<>>, <<>>, "bytes")} :
             \E out \in (IF a0.called THEN SVG2PDF_OUTCOMES ELSE {"bytes"}) :
             \E alone \in {IF out = "bytes" THEN a0
                            ELSE iteration(CurrentRow, df.columns, index, <<>>, <<>>, out)} :
                 /\ pdf_files' = pdf_files \o alone.pdf_files
                 /\ warnings' = warnings \o alone.warnings
        /\ \/ RowProcessed /\ pc' = "loop" /\ index' <= Len(df.rows)
           \/ pc' = "done" /\ index' = index /\ index = Len(df.rows) ]_vars

\* a finished run of two rows: the first rejected with a warning, the second
\* still handed to the converter, whose failure did not stop the run either
C6_Witness ==
    /\ pc = "done"
    /\ index = 2
    /\ Len(warnings) = 1
    /\ pdf_files = <<>>
    /\ Len(svg2pdf_calls) = 1
    /\ svg2pdf_calls[1] = [label |-> 1, out |-> "raise"]

-----------------------------------------------------------------------------
(* One call of replace_template_variables *)

\* the four tokens, a plain character, and two pieces with stray braces
TemplatePieces ==
    {TOKEN_CODE_NUMBER, TOKEN_MATERIAL_TEXT, TOKEN_FIRM, TOKEN_ORIGIN_COUNTRY,
     <<120>>,                                                   \* 'x'
     <<123, 123>>,                                              \* '{{'
     <<111,114,105,103,105,110,95,99,111,117,110,116,114,121,125,125>> }  \* 'origin_country}}'

Templates == {str_join(ps) : ps \in UNION {[1..n -> TemplatePieces] : n \in 0..MaxPieces}}

ReplaceCalls ==
    [svg_content : Templates,
     material_text : {<<65, 92, 110, 66>>, TOKEN_FIRM},             \* 'A\\nB', '{{firm}}'
     reg_number : {Reg12, TOKEN_FIRM},                              \* '12', '{{firm}}'
     per_number : {<<>>, Per67},
     firm : {<<32,65,99,109,101,32>>, TOKEN_ORIGIN_COUNTRY},        \* ' Acme ', '{{origin_country}}'
     origin : {<<99, 110>>, <<32, 85, 83, 32>>}]                    \* 'cn', ' US '

InitReplace ==
    /\ Idle
    /\ pc = "call"
    /\ call \in ReplaceCalls
    /\ result = [ret |-> <<>>]

CallReplace ==
    /\ pc = "call"
    /\ result' = [ret |-> replace_template_variables(call.svg_content, call.material_text,
                              call.reg_number, call.per_number, call.firm, call.origin)]
    /\ pc' = "returned"
    /\ IdleUnchanged

SpecReplace == InitReplace /\ [][CallReplace]_vars

\* the orders in which four replace statements can be written
Orders == {o \in [1..4 -> 1..4] : \A a, b \in 1..4 : o[a] = o[b] => a = b}

CallReplacements ==
    replacements(call.material_text, call.reg_number, call.per_number, call.firm, call.origin)

\* the field values would pass the checks of the pipeline
FieldsPassValidation ==
    /\ call.material_text # <<>> /\ call.reg_number # <<>>
    /\ Len(non_empty_lines(call.material_text)) <= 15
    /\ ~contains_non_english_chars(call.material_text)
    /\ ~contains_non_english_chars(call.reg_number)
    /\ ~(call.per_number # <<>> /\ contains_non_english_chars(call.per_number))

HasBrace(s) == \E k \in 1..Len(s) : s[k] \in {123, 125}

\* the tokens that occur in s
TokensIn(s) == {k \in 1..4 : Contains(s, CallReplacements[k][1])}

RECURSIVE SubstituteAtOnce(_)
\* every token occurrence of s, scanned left to right, replaced by its content
SubstituteAtOnce(s) ==
    IF TokensIn(s) = {} THEN s
    ELSE LET first == CHOOSE k \in TokensIn(s) :
                          \A j \in TokensIn(s) :
                              str_find(s, CallReplacements[k][1]) <= str_find(s, CallReplacements[j][1])
             at == str_find(s, CallReplacements[first][1])
         IN  SubSeq(s, 1, at) \o CallReplacements[first][2]
                 \o SubstituteAtOnce(SubSeq(s, at + Len(CallReplacements[first][1]) + 1, Len(s)))

\* every brace of the template belongs to one of the four tokens
TemplateIsTokensAndPlainText ==
    ~HasBrace(str_replace(str_replace(str_replace(str_replace(call.svg_content,
        TOKEN_CODE_NUMBER, <<32>>), TOKEN_MATERIAL_TEXT, <<32>>), TOKEN_FIRM, <<32>>),
        TOKEN_ORIGIN_COUNTRY, <<32>>))

OrderIndependentAndComplete ==
    /\ \A o \in Orders : replace_in_order(call.svg_content, CallReplacements, o) = result.ret
    /\ result.ret = SubstituteAtOnce(call.svg_content)

\* C10 (as claimed): for every template (here already for those made of the
\* four tokens and brace-free text) and all field values that pass
\* validation, also values holding a placeholder token, the result is the
\* same for every order of the four replacements and every occurrence of
\* each placeholder in the template is replaced.
C10_AnyOrderAnyValues ==
    (pc = "returned" /\ FieldsPassValidation /\ TemplateIsTokensAndPlainText)
        => OrderIndependentAndComplete

\* C10 (amended): for every template made of the four tokens and brace-free
\* text, and field values that pass validation and hold no brace character,
\* the result is the same for every order of the four replacements, and it is
\* the template with every token occurrence replaced by its content.
C10_AnyOrderBraceFreeValues ==
    ( /\ pc = "returned"
      /\ FieldsPassValidation
      /\ TemplateIsTokensAndPlainText
      /\ \A k \in 1..4 : ~HasBrace(CallReplacements[k][2]) )
        => OrderIndependentAndComplete

\* a template with the same token twice has been filled from brace-free values
C10_Witness ==
    /\ pc = "returned"
    /\ call.svg_content = TOKEN_FIRM \o TOKEN_FIRM
    /\ FieldsPassValidation
    /\ \A k \in 1..4 : ~HasBrace(CallReplacements[k][2])
    /\ result.ret = <<65,99,109,101,65,99,109,101>>     \* 'AcmeAcme'

-----------------------------------------------------------------------------
(* One call of sanitize_filename *)

\* a space : _ newline backslash tab
SanitizeAlphabet == {97, 32, 58, 95, 10, 92, 9}

\* short identifiers, and identifiers that reach or pass the limit of 50
SanitizeTexts ==
    {str_times(<<120>>, n) \o t :
        n \in {0} \cup ((FILENAME_MAX - 2)..FILENAME_MAX),
        t \in StringsUpTo(SanitizeAlphabet, MaxSanitizeLen)}

InitSanitize ==
    /\ Idle
    /\ pc = "call"
    /\ call \in {[text |-> t] : t \in SanitizeTexts}
    /\ result = [ret |-> <<>>, again |-> <<>>]

\* the call, and the call on its own result
CallSanitize ==
    /\ pc = "call"
    /\ result' = [ret |-> sanitize_filename(call.text),
                  again |-> sanitize_filename(sanitize_filename(call.text))]
    /\ pc' = "returned"
    /\ IdleUnchanged

SpecSanitize == InitSanitize /\ [][CallSanitize]_vars

\* < > : " / \ | ? * newline carriage-return, as the claim lists them
ForbiddenInNames == {60, 62, 58, 34, 47, 92, 124, 63, 42, 10, 13}

\* the places of text that hold no forbidden character
KeptPlaces(text) == {i \in 1..Len(text) : text[i] \notin ForbiddenInNames}

\* the place of the j-th kept character
KeptPlace(text, j) ==
    CHOOSE i \in KeptPlaces(text) : Cardinality({m \in KeptPlaces(text) : m <= i}) = j

\* C11: the result has at most 50 characters, none of them forbidden or a
\* space; it is the first 50 characters of the identifier with the forbidden
\* characters removed (first) and spaces turned into underscores; and
\* sanitizing the result again changes nothing.
C11_SanitizedName ==
    pc = "returned" =>
        \E kept \in {Cardinality(KeptPlaces(call.text))} :
            /\ Len(result.ret) <= 50
            /\ \A k \in 1..Len(result.ret) : result.ret[k] \notin ForbiddenInNames \cup {32}
            /\ Len(result.ret) = (IF kept < 50 THEN kept ELSE 50)
            /\ \A j \in 1..Len(result.ret) :
                   \E c \in {call.text[KeptPlace(call.text, j)]} :
                       result.ret[j] = (IF c = 32 THEN 95 ELSE c)
            /\ result.again = result.ret

\* an identifier of 52 characters whose 50th is a colon and whose 51st is a
\* space: the removal leaves 51, of which the first 50 are returned, the
\* space as an underscore
C11_Witness ==
    /\ pc = "returned"
    /\ call.text = str_times(<<120>>, FILENAME_MAX - 1) \o <<58, 32, 97>>
    /\ result.ret = str_times(<<120>>, FILENAME_MAX - 1) \o <<95>>
    /\ Len(result.ret) = 50

-----------------------------------------------------------------------------
(* Colliding filenames, lost rows and blank composition texts (pipeline runs) *)

Firm(row) == optional_text(row, df.columns, 5)
Origin(row) == optional_text(row, df.columns, 6)

\* the filename the row with the given label gets
FilenameOf(row, label) == sanitize_filename(identifier_of(row, label)) \o LABEL2_SUFFIX

\* the markup of a row, substituted into the given template
MarkupOf(row, tpl) ==
    replace_template_variables(tpl, Materials(row), Registration(row), Permit(row),
                               Firm(row), Origin(row))

\* the converter calls that returned usable bytes, in order
BytesCalls == SelectSeq(svg2pdf_calls, LAMBDA c : c.out = "bytes")

\* C12 (as claimed): rows with equal sanitized identifiers overwrite one
\* another, so the returned document list holds a single entry per filename.
C12_OneEntryPerFilename ==
    pc = "done" =>
        \A i, j \in 1..Len(result.pdf_files) :
            result.pdf_files[i][1] = result.pdf_files[j][1] => i = j

\* C12 (amended): there is no de-duplication and no overwriting either: the
\* document list holds one entry per row the converter returned bytes for,
\* in row order, each under the sanitized identifier of its own row plus
\* '-label2.pdf' and with its own row's content, so rows with equal sanitized
\* identifiers leave two entries with the identical filename.
C12_CollidingRowsBothKept ==
    \E calls \in {BytesCalls} :
        /\ Len(pdf_files) = Len(calls)
        /\ \A k \in 1..Len(calls) :
               \E row \in {df.rows[calls[k].label + 1]} :
                   /\ pdf_files[k][1] = FilenameOf(row, calls[k].label)
                   /\ pdf_files[k][2].data = MarkupOf(row, template)
        /\ pc = "done" => result.pdf_files = pdf_files

\* a finished run of two rows with different identifiers and the same
\* sanitized identifier: both documents are returned under one filename
C12_Witness ==
    /\ pc = "done"
    /\ Len(df.rows) = 2
    /\ identifier_of(df.rows[1], 0) # identifier_of(df.rows[2], 1)
    /\ Len(result.pdf_files) = 2
    /\ result.pdf_files[1][1] = result.pdf_files[2][1]
    /\ result.pdf_files[1][2] # result.pdf_files[2][2]

\* C13: a row that passes every check while the converter is unavailable or
\* gives no bytes (failure or empty result) leaves both lists as they were
\* and the loop goes on to the following rows; the return hands back the
\* warnings (and documents) collected, whatever the number of documents.
C13_LostRowLeavesListsAlone ==
    [][ /\ ( /\ RowProcessed
             /\ HasRequired(CurrentRow)
             /\ PassesChecks(CurrentRow)
             /\ (~HAS_CAIROSVG \/ NoBytesThisStep) )
           => ( /\ pdf_files' = pdf_files
                /\ warnings' = warnings
                /\ pc' = "loop"
                /\ index' <= Len(df.rows) )
        /\ (pc = "loop" /\ pc' = "done")
           => ( /\ index = Len(df.rows)
                /\ result'.warnings = warnings
                /\ result'.pdf_files = pdf_files ) ]_vars

\* a finished run of two rows: the conversion of the first failed, the second
\* was rejected; no document and the one warning are returned
C13_Witness ==
    /\ pc = "done"
    /\ Len(df.rows) = 2
    /\ HAS_CAIROSVG
    /\ Len(svg2pdf_calls) = 1
    /\ svg2pdf_calls[1].label = 0
    /\ svg2pdf_calls[1].out = "raise"
    /\ result.pdf_files = <<>>
    /\ Len(result.warnings) = 1

\* non-empty, and whitespace and line breaks only
IsBlankOnly(s) == s # <<>> /\ \A k \in 1..Len(s) : IsSpace(s[k])

\* the row of this step has a blank-only composition text and a non-empty
\* safe registration number
BlankRowStep ==
    /\ RowProcessed
    /\ IsBlankOnly(Materials(CurrentRow))
    /\ Registration(CurrentRow) # <<>>
    /\ ~contains_non_english_chars(Registration(CurrentRow))

\* the converter was available and did not fail in this step
ConverterGranted == HAS_CAIROSVG /\ ~NoBytesThisStep

\* the row of this step was emitted with {{material_text}} replaced by the
\* empty string, and no warning
BlankRowEmitted ==
    /\ warnings' = warnings
    /\ pdf_files' =
           Append(pdf_files,
                  <<FilenameOf(CurrentRow, index),
                    [kind |-> "bytes",
                     data |-> MarkupOf(CurrentRow,
                                       str_replace(template, TOKEN_MATERIAL_TEXT, <<>>))]>>)

=============================================================================
